---- MODULE Spec2Model ----
(***************************************************************************)
(* A model of the puddle core: the geometry of grid/location.rs and the    *)
(* Process handle of process/process.rs, whose threads allocate droplet    *)
(* ids, build commands and submit them to the GridView shared behind an    *)
(* Arc<Mutex<..>>.                                                         *)
(***************************************************************************)
EXTENDS Integers, Sequences, FiniteSets, TLC

(* ------------------------------ bounds -------------------------------- *)
MaxProcs == 2          \* cap on NEXT_PROCESS_ID (Process::new calls)
MaxIds == 2            \* cap on the DropletIds handed out, over all processes
MaxCoord == 2          \* rectangle coordinates range over -1..MaxCoord
MaxDim == 3            \* rectangle dimensions range over -1..MaxDim
GridSize == 2          \* the planner's grid has GridSize rows and GridSize + 1 columns
MaxPlanned == 4        \* cap on the DropletIds of the commands given to the planner

\* two caller threads
Threads == {1, 2}
ProcessIds == 0..(MaxProcs - 1)
DropletIds == [id : 0..(MaxIds - 1), process_id : ProcessIds]

VARIABLES
    NEXT_PROCESS_ID,   \* the static AtomicUsize
    next_droplet_id,   \* Process.next_droplet_id, by Process.id
    handle,            \* handle[t]: the Process (its id) thread t refers to, {} or {p}
    pc,                \* pc[t]: the steps thread t still has to run in its current call
    op,                \* op[t]: the operation thread t runs, or ran last
    out,               \* out[t]: the DropletIds the current call has allocated
    result,            \* result[t]: how the last call of thread t ended
    chan,              \* chan[t]: the channel of thread t's flush request
    gridview_lock,     \* the Mutex around the GridView: holders and poison flag
    snapshot,          \* GridView.snapshot
    issued,            \* history: how often each DropletId was handed out
    process_ids,       \* history: how often each process id was handed out
    acquired,          \* history: thread t locked the GridView in its current call
    submitted,         \* history: per process, the commands handed to plan
    planned,           \* history: per process, the commands the planner planned
    logged,            \* history: the threads whose last close() logged an error
    planner_result,    \* the outcome of the planner's last attempt
    rects,             \* the two rectangles collision_distance is applied to
    distance,          \* <<a.collision_distance(b), b.collision_distance(a)>>, once computed
    input,             \* the text given to Location::from_str
    parsed,            \* what from_str made of it, once called
    cells,             \* what Rectangle::locations has yielded, once called
    pi,                \* the pigpio daemon and the RaspberryPi value built on it
    circ               \* the circle diagnostic: its arguments, its position in the loop, the droplet

vars == <<NEXT_PROCESS_ID, next_droplet_id, handle, pc, op, out, result, chan,
          gridview_lock, snapshot, issued, process_ids, acquired, submitted,
          planned, logged, planner_result, rects, distance,
          input, parsed, cells, pi, circ>>

\* the variables of the parser, of Rectangle::locations and of the Pi programs
toolvars == <<input, parsed, cells, pi, circ>>

procvars == <<NEXT_PROCESS_ID, next_droplet_id, handle, pc, op, out, result, chan,
              gridview_lock, issued, process_ids, acquired, submitted,
              planned, logged>>

geomvars == <<rects, distance>>

(* ------------------------- grid/location.rs --------------------------- *)
Abs(a) == IF a < 0 THEN 0 - a ELSE a

Min(a, b) == IF a <= b THEN a ELSE b

\* the smaller of two distances
lesser(a, b) == IF a <= b THEN a ELSE b

Max(a, b) == IF a >= b THEN a ELSE b

Location(y, x) == [y |-> y, x |-> x]

north(l) == Location(l.y - 1, l.x)

west(l) == Location(l.y, l.x - 1)

south(l) == Location(l.y + 1, l.x)

east(l) == Location(l.y, l.x + 1)

\* Location::norm
norm(l) == Abs(l.y) + Abs(l.x)

\* Location::distance_to: (self - other).norm()
distance_to(self, other) == norm(Location(self.y - other.y, self.x - other.x))

Rectangle(location, dimensions) == [location |-> location, dimensions |-> dimensions]

top_edge(r) == r.location.y

bottom_edge(r) == r.location.y + r.dimensions.y

left_edge(r) == r.location.x

right_edge(r) == r.location.x + r.dimensions.x

\* signed_min without its sign: the smaller magnitude, never negative
signed_min_abs(a, b) == Min(Abs(a), Abs(b))

\* signed_min with the sign taken from the first argument alone
signed_min_first(a, b) ==
    IF a < 0 THEN 0 - Min(Abs(a), Abs(b)) ELSE Min(Abs(a), Abs(b))

signed_min(a, b) ==
    IF (a < 0) = (b < 0) THEN Min(Abs(a), Abs(b)) ELSE 0 - Min(Abs(a), Abs(b))

collision_distance(self, other) ==
    LET y_dist == signed_min(bottom_edge(self) - top_edge(other),
                             top_edge(self) - bottom_edge(other))
        x_dist == signed_min(right_edge(self) - left_edge(other),
                             left_edge(self) - right_edge(other))
    IN  Max(y_dist, x_dist)

\* Rectangle::locations, as the set of cells it yields
locations(r) ==
    { Location(r.location.y + y, r.location.x + x) :
        y \in 0..(r.dimensions.y - 1), x \in 0..(r.dimensions.x - 1) }

(* ------------------------- process/process.rs ------------------------- *)
\* a counter that is read and not advanced
stale_add(v) == v

\* AtomicUsize::fetch_add(1, Relaxed): the value stored back; the value
\* returned is the one read by the same atomic step
fetch_add(v) == v + 1

\* a lock that never makes a thread wait
always_free(lock) == TRUE

\* Mutex::lock blocks while another thread holds the guard
MutexFree(lock) == lock.holders = {}

IdOps == {"create", "input", "move_droplet", "combine_into", "heat"}

Ops == IdOps \cup {"output", "mix", "split", "flush"}

\* the operations with the GridView locked on entry, before the command is built
ProgramLockFirst(o) ==
    IF o \in IdOps THEN <<"lock", "new_droplet_id", "construct", "plan">>
    ELSE IF o = "output" THEN <<"lock", "construct", "plan">>
    ELSE IF o = "mix" THEN <<"lock", "new_droplet_id", "construct", "plan",
                             "lock", "new_droplet_id", "construct", "plan">>
    ELSE IF o = "split" THEN <<"lock", "new_droplet_id", "new_droplet_id",
                               "construct", "plan">>
    ELSE IF o = "flush" THEN <<"lock", "plan">>
    ELSE <<"lock", "close">>

\* the steps of each operation, in the order of its body; plan is lock; plan
Program(o) ==
    IF o \in IdOps THEN <<"new_droplet_id", "construct", "lock", "plan">>
    ELSE IF o = "output" THEN <<"construct", "lock", "plan">>
    ELSE IF o = "mix" THEN <<"new_droplet_id", "construct", "lock", "plan",
                             "new_droplet_id", "construct", "lock", "plan">>
    ELSE IF o = "split" THEN <<"new_droplet_id", "new_droplet_id",
                               "construct", "lock", "plan">>
    ELSE IF o = "flush" THEN <<"lock", "plan">>
    ELSE <<"lock", "close">>          \* close, and drop, which calls close

\* the body of Process::plan, entered with the result of lock()
plan(poisoned) ==
    IF poisoned THEN "panic"          \* .lock().unwrap() on a PoisonError
    ELSE "panic"                      \* unimplemented!()

\* a close that unwraps the result of lock()
close_lock_unwrap(poisoned) == IF poisoned THEN "panic" ELSE "Ok"

\* match self.gridview.lock() in Process::close: Ok(gv), or Err(e), which is
\* logged before close returns
close_lock(poisoned) == IF poisoned THEN "Err" ELSE "Ok"

\* what Process::close does to the Snapshot under the guard
close(s, p) == s                      \* FIXME gv.close() is commented out

Idle == <<>>

Step(t) == IF pc[t] = <<>> THEN "idle" ELSE Head(pc[t])

Alive(p) == \E t \in Threads : handle[t] = {p}

Sole(t) == \A u \in Threads \ {t} : handle[u] # handle[t]

IdsNeeded(o) == Cardinality({ i \in DOMAIN Program(o) : Program(o)[i] = "new_droplet_id" })

RECURSIVE Sum(_, _)
Sum(f, S) == IF S = {} THEN 0 ELSE LET x == CHOOSE x \in S : TRUE IN f[x] + Sum(f, S \ {x})

IdsHandedOut == Sum(next_droplet_id, ProcessIds)

NoChannel == [open |-> FALSE, tx |-> FALSE, sent |-> <<>>]

\* std::sync::mpsc::channel(): both ends alive, nothing sent
channel == [open |-> TRUE, tx |-> TRUE, sent |-> <<>>]

\* the command an operation hands to plan, by the ids it has allocated so far
CommandOf(o, n) ==
    IF o = "create" THEN "Create"
    ELSE IF o = "input" THEN "Input"
    ELSE IF o = "output" THEN "Output"
    ELSE IF o = "move_droplet" THEN "Move"
    ELSE IF o = "mix" THEN (IF n <= 1 THEN "Combine" ELSE "Agitate")
    ELSE IF o = "combine_into" THEN "Combine"
    ELSE IF o = "split" THEN "Split"
    ELSE IF o = "heat" THEN "Heat"
    ELSE "Flush"

(* ------------------------ the shared Snapshot -------------------------- *)
Droplet(location, dimensions, volume, collision_group) ==
    [location |-> location, dimensions |-> dimensions, volume |-> volume,
     collision_group |-> collision_group]

EmptySnapshot ==
    [droplets |-> [d \in {} |-> Droplet(Location(0, 0), Location(1, 1), 1, 0)],
     commands_to_finalize |-> <<>>]

\* the GridView a Process is bound to is built by its caller: it is empty, or
\* already holds a unit droplet carrying a process id
InitSnapshots ==
    {EmptySnapshot} \cup
    { [droplets |-> [d \in {[id |-> 0, process_id |-> p]} |->
                        Droplet(Location(0, 0), Location(1, 1), 1, 0)],
       commands_to_finalize |-> <<>>] : p \in {0} }

Owned(s, p) == { d \in DOMAIN s.droplets : d.process_id = p }

(* ------------------------------ actions -------------------------------- *)
\* what thread t remembers of its last call is of no use once it turns to
\* another Process
Forget(t) ==
    /\ op' = [op EXCEPT ![t] = "none"]
    /\ out' = [out EXCEPT ![t] = <<>>]
    /\ result' = [result EXCEPT ![t] = "none"]
    /\ acquired' = [acquired EXCEPT ![t] = FALSE]
    /\ logged' = logged \ {t}

InitProcess ==
    /\ NEXT_PROCESS_ID = 0
    /\ next_droplet_id = [p \in ProcessIds |-> 0]
    /\ handle = [t \in Threads |-> {}]
    /\ pc = [t \in Threads |-> Idle]
    /\ op = [t \in Threads |-> "none"]
    /\ out = [t \in Threads |-> <<>>]
    /\ result = [t \in Threads |-> "none"]
    /\ chan = [t \in Threads |-> NoChannel]
    /\ gridview_lock = [holders |-> {}, poisoned |-> FALSE]
    /\ issued = [d \in DropletIds |-> 0]
    /\ process_ids = [p \in ProcessIds |-> 0]
    /\ acquired = [t \in Threads |-> FALSE]
    /\ submitted = [p \in ProcessIds |-> <<>>]
    /\ planned = [p \in ProcessIds |-> <<>>]
    /\ logged = {}

NoParse == input = <<>> /\ parsed = <<>>

NoCells == cells = [called |-> FALSE, yielded |-> <<>>]

NoPi == pi = <<>>

NoCircle == circ = <<>>

Init ==
    /\ InitProcess
    /\ NoParse /\ NoCells /\ NoPi /\ NoCircle
    /\ snapshot \in InitSnapshots
    /\ planner_result = "none"
    /\ rects = <<Rectangle(Location(0, 0), Location(1, 1)),
                 Rectangle(Location(0, 0), Location(1, 1))>>
    /\ distance = <<>>

\* Process::new
New(t) ==
    /\ Step(t) = "idle"
    /\ handle[t] = {}
    /\ NEXT_PROCESS_ID < MaxProcs
    /\ LET id == NEXT_PROCESS_ID IN
        /\ NEXT_PROCESS_ID' = fetch_add(NEXT_PROCESS_ID)
        /\ handle' = [handle EXCEPT ![t] = {id}]
        /\ next_droplet_id' = [next_droplet_id EXCEPT ![id] = 0]
        /\ process_ids' = [process_ids EXCEPT ![id] = @ + 1]
    /\ Forget(t)
    /\ UNCHANGED <<pc, chan, gridview_lock, snapshot, issued, submitted, planned>>
    /\ UNCHANGED <<planner_result, rects, distance, toolvars>>

\* the methods take &self: a second thread works on the Process of thread u
Share(t, u) ==
    /\ Step(t) = "idle"
    /\ handle[t] = {}
    /\ handle[u] # {}
    /\ ~(op[u] \in {"close", "drop"} /\ Step(u) # "idle")
    /\ Step(u) # "unwind"
    /\ handle' = [handle EXCEPT ![t] = handle[u]]
    /\ Forget(t)
    /\ UNCHANGED <<NEXT_PROCESS_ID, next_droplet_id, pc, chan, gridview_lock,
                   snapshot, issued, process_ids, submitted, planned>>
    /\ UNCHANGED <<planner_result, rects, distance, toolvars>>

\* a thread enters create, input, output, move_droplet, mix, combine_into,
\* split, heat or flush (which first makes its channel)
Call(t, o) ==
    /\ Step(t) = "idle"
    /\ handle[t] # {}
    /\ IdsHandedOut + IdsNeeded(o) <= MaxIds
    /\ pc' = [pc EXCEPT ![t] = Program(o)]
    /\ op' = [op EXCEPT ![t] = o]
    /\ out' = [out EXCEPT ![t] = <<>>]
    /\ result' = [result EXCEPT ![t] = "pending"]
    /\ acquired' = [acquired EXCEPT ![t] = FALSE]
    /\ chan' = [chan EXCEPT ![t] = IF o = "flush" THEN channel ELSE NoChannel]
    /\ logged' = logged \ {t}
    /\ UNCHANGED <<NEXT_PROCESS_ID, next_droplet_id, handle, gridview_lock,
                   snapshot, issued, process_ids, submitted, planned>>
    /\ UNCHANGED <<planner_result, rects, distance, toolvars>>

\* Process::close(&mut self), called by the only thread that refers to it
CallClose(t) ==
    /\ Step(t) = "idle"
    /\ handle[t] # {}
    /\ Sole(t)
    /\ pc' = [pc EXCEPT ![t] = Program("close")]
    /\ op' = [op EXCEPT ![t] = "close"]
    /\ out' = [out EXCEPT ![t] = <<>>]
    /\ result' = [result EXCEPT ![t] = "pending"]
    /\ acquired' = [acquired EXCEPT ![t] = FALSE]
    /\ chan' = [chan EXCEPT ![t] = NoChannel]
    /\ UNCHANGED <<NEXT_PROCESS_ID, next_droplet_id, handle, gridview_lock,
                   snapshot, issued, process_ids, submitted, planned, logged>>
    /\ UNCHANGED <<planner_result, rects, distance, toolvars>>

\* a thread lets its Process go; the last one drops it: Drop::drop calls close
DropProcess(t) ==
    /\ Step(t) = "idle"
    /\ handle[t] # {}
    /\ IF Sole(t)
       THEN /\ pc' = [pc EXCEPT ![t] = Program("drop")]
            /\ op' = [op EXCEPT ![t] = "drop"]
            /\ out' = [out EXCEPT ![t] = <<>>]
            /\ result' = [result EXCEPT ![t] = "pending"]
            /\ acquired' = [acquired EXCEPT ![t] = FALSE]
            /\ chan' = [chan EXCEPT ![t] = NoChannel]
            /\ UNCHANGED <<handle, logged>>
       ELSE /\ handle' = [handle EXCEPT ![t] = {}]
            /\ Forget(t)
            /\ UNCHANGED <<pc, chan>>
    /\ UNCHANGED <<NEXT_PROCESS_ID, next_droplet_id, gridview_lock, snapshot,
                   issued, process_ids, submitted, planned>>
    /\ UNCHANGED <<planner_result, rects, distance, toolvars>>

\* Process::new_droplet_id
NewDropletId(t) ==
    /\ Step(t) = "new_droplet_id"
    /\ \E p \in handle[t] :
        /\ IdsHandedOut < MaxIds
        /\ LET d == [id |-> next_droplet_id[p], process_id |-> p] IN
            /\ next_droplet_id' = [next_droplet_id EXCEPT ![p] = fetch_add(@)]
            /\ out' = [out EXCEPT ![t] = Append(@, d)]
            /\ issued' = [issued EXCEPT ![d] = @ + 1]
    /\ pc' = [pc EXCEPT ![t] = Tail(@)]
    /\ UNCHANGED <<NEXT_PROCESS_ID, handle, op, result, chan, gridview_lock,
                   snapshot, process_ids, acquired, submitted, planned, logged>>
    /\ UNCHANGED <<planner_result, rects, distance, toolvars>>

\* command::X::new(..)?: the arguments pass validation, or the error is returned
Construct(t) ==
    /\ Step(t) = "construct"
    /\ \E valid \in BOOLEAN :
        IF valid
        THEN /\ pc' = [pc EXCEPT ![t] = Tail(@)]
             /\ UNCHANGED result
        ELSE /\ pc' = [pc EXCEPT ![t] = Idle]
             /\ result' = [result EXCEPT ![t] = "Err"]
    /\ UNCHANGED <<NEXT_PROCESS_ID, next_droplet_id, handle, op, out, chan,
                   gridview_lock, snapshot, issued, process_ids, acquired,
                   submitted, planned, logged>>
    /\ UNCHANGED <<planner_result, rects, distance, toolvars>>

\* self.gridview.lock(), in plan and in close
Lock(t) ==
    /\ Step(t) = "lock"
    /\ MutexFree(gridview_lock)
    /\ gridview_lock' = [gridview_lock EXCEPT !.holders = @ \cup {t}]
    /\ acquired' = [acquired EXCEPT ![t] = TRUE]
    /\ pc' = [pc EXCEPT ![t] = Tail(@)]
    /\ submitted' =
         IF Step(t) = "lock" /\ Len(pc[t]) > 1 /\ pc[t][2] = "plan"
         THEN [p \in ProcessIds |->
                 IF p \in handle[t]
                 THEN Append(submitted[p], CommandOf(op[t], Len(out[t])))
                 ELSE submitted[p]]
         ELSE submitted
    /\ UNCHANGED <<NEXT_PROCESS_ID, next_droplet_id, handle, op, out, result,
                   chan, snapshot, issued, process_ids, planned, logged>>
    /\ UNCHANGED <<planner_result, rects, distance, toolvars>>

\* the body of Process::plan under the guard, and what its caller does next
Plan(t) ==
    /\ Step(t) = "plan"
    /\ t \in gridview_lock.holders
    /\ LET r == plan(gridview_lock.poisoned)
           done == [p \in ProcessIds |->
                      IF p \in handle[t]
                      THEN Append(planned[p], CommandOf(op[t], Len(out[t])))
                      ELSE planned[p]]
       IN
        IF r = "panic"
        THEN \* the guard and the command are dropped while unwinding
             /\ gridview_lock' = [holders |-> gridview_lock.holders \ {t},
                                  poisoned |-> TRUE]
             /\ result' = [result EXCEPT ![t] = "panic"]
             /\ pc' = [pc EXCEPT ![t] = <<"unwind">>]
             /\ chan' = [chan EXCEPT ![t] = [@ EXCEPT !.open = FALSE, !.tx = FALSE]]
             /\ UNCHANGED planned
        ELSE IF r = "PlanError"
        THEN \* map_err(PlanError) and ? in the caller
             /\ gridview_lock' = [gridview_lock EXCEPT !.holders = @ \ {t}]
             /\ result' = [result EXCEPT ![t] = "PlanError"]
             /\ pc' = [pc EXCEPT ![t] = Idle]
             /\ chan' = [chan EXCEPT ![t] = [@ EXCEPT !.open = FALSE, !.tx = FALSE]]
             /\ planned' = done
        ELSE \* Ok(()): the caller goes on
             /\ gridview_lock' = [gridview_lock EXCEPT !.holders = @ \ {t}]
             /\ planned' = done
             /\ IF Tail(pc[t]) # <<>>
                THEN /\ pc' = [pc EXCEPT ![t] = Tail(@)]
                     /\ UNCHANGED <<result, chan>>
                ELSE IF op[t] = "flush"
                THEN \* rx.recv().unwrap(): plan dropped the command and its tx
                     /\ chan' = [chan EXCEPT ![t] = [@ EXCEPT !.open = FALSE, !.tx = FALSE]]
                     /\ IF chan[t].sent = <<>>
                        THEN /\ result' = [result EXCEPT ![t] = "panic"]
                             /\ pc' = [pc EXCEPT ![t] = <<"unwind">>]
                        ELSE /\ result' = [result EXCEPT ![t] = Head(chan[t].sent)]
                             /\ pc' = [pc EXCEPT ![t] = Idle]
                ELSE /\ result' = [result EXCEPT ![t] = "Ok"]
                     /\ pc' = [pc EXCEPT ![t] = Idle]
                     /\ UNCHANGED chan
    /\ UNCHANGED <<NEXT_PROCESS_ID, next_droplet_id, handle, op, out, snapshot,
                   issued, process_ids, acquired, submitted, logged>>
    /\ UNCHANGED <<planner_result, rects, distance, toolvars>>

\* a panic unwinds the thread: a Process it alone refers to is dropped
Unwind(t) ==
    /\ Step(t) = "unwind"
    /\ IF handle[t] # {} /\ Sole(t)
       THEN /\ pc' = [pc EXCEPT ![t] = Program("drop")]
            /\ op' = [op EXCEPT ![t] = "drop"]
            /\ UNCHANGED handle
       ELSE /\ pc' = [pc EXCEPT ![t] = <<"dead">>]
            /\ handle' = [handle EXCEPT ![t] = {}]
            /\ op' = [op EXCEPT ![t] = "none"]
    /\ UNCHANGED <<NEXT_PROCESS_ID, next_droplet_id, out, result, chan,
                   gridview_lock, snapshot, issued, process_ids, acquired,
                   submitted, planned, logged>>
    /\ UNCHANGED <<planner_result, rects, distance, toolvars>>

\* the body of Process::close, entered with the result of lock()
Close(t) ==
    /\ Step(t) = "close"
    /\ t \in gridview_lock.holders
    /\ LET r == close_lock(gridview_lock.poisoned) IN
       IF r = "panic"
       THEN \* a panic in close: the thread is gone
            /\ logged' = logged \ {t}
            /\ UNCHANGED snapshot
            /\ handle' = [handle EXCEPT ![t] = {}]
            /\ pc' = [pc EXCEPT ![t] = <<"dead">>]
            /\ result' = [result EXCEPT ![t] = "close_panic"]
            /\ op' = [op EXCEPT ![t] = "none"]
       ELSE /\ IF r = "Err"
               THEN \* Err(e): error!(..); return
                    /\ logged' = logged \cup {t}
                    /\ UNCHANGED snapshot
               ELSE \* Ok(gv)
                    /\ logged' = logged \ {t}
                    /\ snapshot' = IF handle[t] = {} THEN snapshot
                                   ELSE close(snapshot, CHOOSE p \in handle[t] : TRUE)
            /\ handle' = IF op[t] = "drop" THEN [handle EXCEPT ![t] = {}] ELSE handle
            /\ pc' = [pc EXCEPT ![t] = IF result[t] = "panic" THEN <<"dead">> ELSE Idle]
            /\ result' = [result EXCEPT ![t] = IF @ = "panic" THEN "panic" ELSE "Ok"]
            /\ op' = [op EXCEPT ![t] = IF result[t] = "panic" THEN "none" ELSE @]
    /\ gridview_lock' = [gridview_lock EXCEPT !.holders = @ \ {t}]
    /\ UNCHANGED <<NEXT_PROCESS_ID, next_droplet_id, out, chan, issued,
                   process_ids, acquired, submitted, planned>>
    /\ UNCHANGED <<planner_result, rects, distance, toolvars>>

Next ==
    \/ \E t \in Threads : New(t)
    \/ \E t \in Threads, u \in Threads : Share(t, u)
    \/ \E t \in Threads, o \in Ops : Call(t, o)
    \/ \E t \in Threads : CallClose(t)
    \/ \E t \in Threads : DropProcess(t)
    \/ \E t \in Threads : NewDropletId(t)
    \/ \E t \in Threads : Construct(t)
    \/ \E t \in Threads : Lock(t)
    \/ \E t \in Threads : Plan(t)
    \/ \E t \in Threads : Unwind(t)
    \/ \E t \in Threads : Close(t)

Spec == Init /\ [][Next]_vars

(* -------------------- collision_distance, applied --------------------- *)
Coords == (0 - 1)..MaxCoord

Dims == (0 - 1)..MaxDim

Rectangles ==
    { Rectangle(Location(y, x), Location(h, w)) :
        y \in Coords, x \in Coords, h \in Dims, w \in Dims }

\* tests::test_rectangle_distance: the pairs it passes to check_dist, with the
\* distance it expects
test_rectangle_distance ==
    { [r1 |-> Rectangle(Location(0, 0), Location(1, 1)),
       r2 |-> Rectangle(Location(2, 0), Location(1, 1)), expected |-> 1],
      [r1 |-> Rectangle(Location(0, 0), Location(1, 1)),
       r2 |-> Rectangle(Location(1, 1), Location(1, 1)), expected |-> 0],
      [r1 |-> Rectangle(Location(0, 4), Location(2, 2)),
       r2 |-> Rectangle(Location(4, 3), Location(1, 4)), expected |-> 2],
      [r1 |-> Rectangle(Location(0, 4), Location(2, 2)),
       r2 |-> Rectangle(Location(1, 5), Location(1, 3)), expected |-> 0 - 1] }

InitGeom ==
    /\ InitProcess
    /\ NoParse /\ NoCells /\ NoPi /\ NoCircle
    /\ snapshot = EmptySnapshot
    /\ planner_result = "none"
    /\ rects \in (Rectangles \X Rectangles)
                  \cup { <<c.r1, c.r2>> : c \in test_rectangle_distance }
    /\ distance = <<>>

\* tests::check_dist: the distance is taken in both directions
CheckDist ==
    /\ distance = <<>>
    /\ distance' = <<collision_distance(rects[1], rects[2]),
                     collision_distance(rects[2], rects[1])>>
    /\ UNCHANGED <<procvars, snapshot, planner_result, rects, toolvars>>

NextGeom == CheckDist

SpecGeom == InitGeom /\ [][NextGeom]_vars

(* ------------------- the planner behind GridView ---------------------- *)
\* the separation every accepted transition keeps between droplets of
\* different collision groups
MinimumSeparation == 0

RectOf(droplet) == Rectangle(droplet.location, droplet.dimensions)

\* the footprint lies within the grid and has positive extents
InGrid(r) ==
    /\ r.dimensions.y >= 1 /\ r.dimensions.x >= 1
    /\ top_edge(r) >= 0 /\ left_edge(r) >= 0
    /\ bottom_edge(r) <= GridSize /\ right_edge(r) <= GridSize + 1

Separated(s) ==
    \A d1 \in DOMAIN s.droplets, d2 \in DOMAIN s.droplets :
        (d1 # d2 /\ s.droplets[d1].collision_group # s.droplets[d2].collision_group)
        => collision_distance(RectOf(s.droplets[d1]), RectOf(s.droplets[d2]))
             >= MinimumSeparation

Acceptable(s) ==
    /\ \A d \in DOMAIN s.droplets : InGrid(RectOf(s.droplets[d]))
    /\ Separated(s)

Insert(s, d, droplet) ==
    [s EXCEPT !.droplets =
        [x \in (DOMAIN s.droplets) \cup {d} |->
            IF x = d THEN droplet ELSE s.droplets[x]]]

Remove(s, D) ==
    [s EXCEPT !.droplets = [x \in (DOMAIN s.droplets) \ D |-> s.droplets[x]]]

GroupOf(d) == d.id * MaxProcs + d.process_id

GridCells == { Location(y, x) : y \in 0..(GridSize - 1), x \in 0..GridSize }

DropletDims == { Location(1, 1), Location(1, 2) }

\* the derived snapshot replaces the shared one when it is acceptable; it is
\* discarded, with a PlanError, when it is not
Transition(derived) ==
    IF Acceptable(derived)
    THEN /\ snapshot' = derived
         /\ planner_result' = "Ok"
    ELSE /\ snapshot' = snapshot
         /\ planner_result' = "PlanError"

InitPlanner ==
    /\ InitProcess
    /\ NoParse /\ NoCells /\ NoPi /\ NoCircle
    /\ snapshot = EmptySnapshot
    /\ planner_result = "none"
    /\ rects = <<Rectangle(Location(0, 0), Location(1, 1)),
                 Rectangle(Location(0, 0), Location(1, 1))>>
    /\ distance = <<>>

plannerframe == <<NEXT_PROCESS_ID, handle, pc, op, out, result, chan,
                  gridview_lock, issued, process_ids, acquired, submitted,
                  planned, logged, rects, distance, toolvars>>

\* two droplets are live: the claims about the Snapshot are about pairs of
\* droplets, and the planner is given a Create only while there is room for one
Crowded(s) == \E d1 \in DOMAIN s.droplets, d2 \in DOMAIN s.droplets : d1 # d2

\* Create: a droplet of process p is placed, in a collision group of its own;
\* the processes take turns
PlanCreate(p, loc, dim) ==
    /\ IdsHandedOut < MaxPlanned
    /\ p = IdsHandedOut % MaxProcs
    /\ ~Crowded(snapshot)
    /\ LET d == [id |-> next_droplet_id[p], process_id |-> p] IN
        Transition(Insert(snapshot, d, Droplet(loc, dim, 1, GroupOf(d))))
    /\ next_droplet_id' = [next_droplet_id EXCEPT ![p] = fetch_add(@)]
    /\ UNCHANGED plannerframe

\* Move: one step of a droplet to a neighbouring cell
PlanMove(d, to) ==
    /\ Transition([snapshot EXCEPT !.droplets[d].location = to])
    /\ UNCHANGED <<next_droplet_id, plannerframe>>

\* Combine, first part: d2 joins the collision group of d1 so that the two
\* may touch
PlanJoin(d1, d2) ==
    /\ d1 # d2
    /\ snapshot.droplets[d1].collision_group # snapshot.droplets[d2].collision_group
    /\ Transition([snapshot EXCEPT !.droplets[d2].collision_group =
                                      snapshot.droplets[d1].collision_group])
    /\ UNCHANGED <<next_droplet_id, plannerframe>>

\* Combine, second part: two adjacent droplets of one group become one droplet
\* of process p on the footprint of d1
PlanCombine(d1, d2, p) ==
    /\ IdsHandedOut < MaxPlanned
    /\ p = IdsHandedOut % MaxProcs
    /\ d1 # d2
    /\ snapshot.droplets[d1].collision_group = snapshot.droplets[d2].collision_group
    /\ LET o == [id |-> next_droplet_id[p], process_id |-> p]
           a == snapshot.droplets[d1]
           b == snapshot.droplets[d2]
       IN  IF collision_distance(RectOf(a), RectOf(b)) <= 0
           THEN Transition(Insert(Remove(snapshot, {d1, d2}), o,
                    Droplet(a.location, a.dimensions, a.volume + b.volume,
                            GroupOf(o))))
           ELSE /\ snapshot' = snapshot
                /\ planner_result' = "PlanError"
    /\ next_droplet_id' = [next_droplet_id EXCEPT ![p] = fetch_add(@)]
    /\ UNCHANGED plannerframe

\* Output: the droplet leaves the grid
PlanOutput(d) ==
    /\ Transition(Remove(snapshot, {d}))
    /\ UNCHANGED <<next_droplet_id, plannerframe>>

Neighbours(l) == { north(l), west(l), south(l), east(l) }

NextPlanner ==
    \/ \E p \in ProcessIds, loc \in GridCells, dim \in DropletDims : PlanCreate(p, loc, dim)
    \/ \E d \in DOMAIN snapshot.droplets :
         \E to \in Neighbours(snapshot.droplets[d].location) : PlanMove(d, to)
    \/ \E d1 \in DOMAIN snapshot.droplets, d2 \in DOMAIN snapshot.droplets : PlanJoin(d1, d2)
    \/ \E d1 \in DOMAIN snapshot.droplets, d2 \in DOMAIN snapshot.droplets, p \in ProcessIds :
         PlanCombine(d1, d2, p)
    \/ \E d \in DOMAIN snapshot.droplets : PlanOutput(d)

SpecPlanner == InitPlanner /\ [][NextPlanner]_vars

(* -------------------- Location::from_str, applied --------------------- *)
MaxStr == 4            \* the texts of up to MaxStr characters are all parsed

Chars == {" ", "(", ")", ",", "-", "2", "3"}

Digits == {"2", "3"}

DigitValue(c) == IF c = "2" THEN 2 ELSE 3

\* str::trim_matches: the characters of the set are stripped from both ends
RECURSIVE trim_start_matches(_, _)
trim_start_matches(s, set) ==
    IF s # <<>> /\ Head(s) \in set THEN trim_start_matches(Tail(s), set) ELSE s

RECURSIVE trim_end_matches(_, _)
trim_end_matches(s, set) ==
    IF s # <<>> /\ s[Len(s)] \in set
    THEN trim_end_matches(SubSeq(s, 1, Len(s) - 1), set)
    ELSE s

trim_matches(s, set) == trim_end_matches(trim_start_matches(s, set), set)

\* str::trim
trim(s) == trim_matches(s, {" "})

\* str::split(','): the pieces between the commas, empty pieces included
RECURSIVE split(_)
split(s) ==
    IF \A i \in DOMAIN s : s[i] # ","
    THEN <<s>>
    ELSE LET i == CHOOSE i \in DOMAIN s : s[i] = "," /\ \A j \in 1..(i - 1) : s[j] # ","
         IN  <<SubSeq(s, 1, i - 1)>> \o split(SubSeq(s, i + 1, Len(s)))

RECURSIVE DecimalValue(_)
DecimalValue(s) ==
    IF s = <<>> THEN 0
    ELSE 10 * DecimalValue(SubSeq(s, 1, Len(s) - 1)) + DigitValue(s[Len(s)])

\* str::parse::<i32>: an optional sign and at least one digit, nothing else
parse(s) ==
    LET digits == IF s # <<>> /\ Head(s) = "-" THEN Tail(s) ELSE s IN
    IF digits = <<>> \/ \E i \in DOMAIN digits : digits[i] \notin Digits
    THEN [kind |-> "Err"]
    ELSE [kind |-> "Ok",
          value |-> IF Head(s) = "-" THEN 0 - DecimalValue(digits)
                    ELSE DecimalValue(digits)]

\* <Location as FromStr>::from_str
from_str(s) ==
    LET pieces == split(trim_matches(trim(s), {"(", ")"}))
        coords == [i \in DOMAIN pieces |-> trim(pieces[i])]
    IN  IF Len(coords) # 2
        THEN [kind |-> "panic"]
        ELSE LET y == parse(coords[1])
                 x == parse(coords[2])
             IN  IF y.kind = "Err" THEN [kind |-> "Err"]
                 ELSE IF x.kind = "Err" THEN [kind |-> "Err"]
                 ELSE [kind |-> "Ok", location |-> Location(y.value, x.value)]

Strings == UNION { [1..n -> Chars] : n \in 0..MaxStr }

\* "(3, -2)", "3,-2" and "(3)"
ParseExamples ==
    { <<"(", "3", ",", " ", "-", "2", ")">>,
      <<"3", ",", "-", "2">>,
      <<"(", "3", ")">> }

\* the state every specification but Spec starts its process layer in
ProcessUnused ==
    /\ InitProcess
    /\ snapshot = EmptySnapshot
    /\ planner_result = "none"
    /\ rects = <<Rectangle(Location(0, 0), Location(1, 1)),
                 Rectangle(Location(0, 0), Location(1, 1))>>
    /\ distance = <<>>

InitParse ==
    /\ ProcessUnused
    /\ NoCells /\ NoPi /\ NoCircle
    /\ input \in Strings \cup ParseExamples
    /\ parsed = <<>>

\* s.parse::<Location>()
Parse ==
    /\ parsed = <<>>
    /\ parsed' = from_str(input)
    /\ UNCHANGED <<procvars, snapshot, planner_result, rects, distance,
                   input, cells, pi, circ>>

NextParse == Parse

SpecParse == InitParse /\ [][NextParse]_vars

(* -------------------- Rectangle::locations, applied -------------------- *)
\* one row with a cell too many
row_inclusive(r, y) ==
    [i \in 1..(r.dimensions.x + 1) |->
        Location(r.location.y + y, r.location.x + (i - 1))]

\* xs.map(move |x| base + Location { y, x }), xs being 0..dimensions.x
row(r, y) ==
    [i \in 1..r.dimensions.x |->
        Location(r.location.y + y, r.location.x + (i - 1))]

\* ys.flat_map(..) from row y on, ys being 0..dimensions.y
RECURSIVE flat_map(_, _)
flat_map(r, y) ==
    IF y >= r.dimensions.y THEN <<>> ELSE row(r, y) \o flat_map(r, y + 1)

\* Rectangle::locations, as the sequence the iterator yields
locations_iter(r) == flat_map(r, 0)

InitLocations ==
    /\ InitProcess
    /\ snapshot = EmptySnapshot
    /\ planner_result = "none"
    /\ rects \in { <<r, Rectangle(Location(0, 0), Location(1, 1))>> : r \in Rectangles }
    /\ distance = <<>>
    /\ NoParse /\ NoCells /\ NoPi /\ NoCircle

\* rects[1].locations().collect()
Collect ==
    /\ ~cells.called
    /\ cells' = [called |-> TRUE, yielded |-> locations_iter(rects[1])]
    /\ UNCHANGED <<procvars, snapshot, planner_result, rects, distance,
                   input, parsed, pi, circ>>

NextLocations == Collect

SpecLocations == InitLocations /\ [][NextLocations]_vars

(* ----------------------------- pi/mod.rs ------------------------------- *)
MaxSessions == 3       \* cap on the calls of RaspberryPi::new

I2cHandles == 0..(2 * MaxSessions - 1)

\* res!(code, ok): a negative code is an error
res(code) == IF code >= 0 THEN "Ok" ELSE "Err"

\* what the daemon may answer to pigpio_start or i2c_open when next is the
\* number it would hand out
Answers(next) == {0 - 1, next}

PiOff ==
    [pc |-> "none",
     sessions |-> 0,
     pi_num |-> {},          \* the local pi_num, then RaspberryPi.pi_num
     mcp4725 |-> {},         \* the I2cHandle held by mcp4725
     pca9685 |-> {},         \* the I2cHandle held by pca9685, or by the local i2c
     dropping |-> <<>>,      \* the I2cHandle values being dropped, in order
     after |-> "none",       \* where the program is once they are dropped
     started |-> 0,          \* pigpio_start calls that gave a connection
     stopped |-> 0,          \* pigpio_stop calls
     opened |-> 0,           \* i2c_open calls that gave a handle
     closes |-> [h \in I2cHandles |-> 0],   \* i2c_close calls, by handle
     log |-> "none"]         \* the level of the last line logged by a drop

InitPi ==
    /\ ProcessUnused
    /\ NoParse /\ NoCells /\ NoCircle
    /\ pi = PiOff

piframe == <<procvars, snapshot, planner_result, rects, distance,
             input, parsed, cells, circ>>

\* a caller enters RaspberryPi::new
PiNew ==
    /\ pi.pc \in {"none", "failed", "dropped"}
    /\ pi.sessions < MaxSessions
    /\ pi' = [pi EXCEPT !.pc = "pigpio_start", !.sessions = @ + 1,
                        !.pi_num = {}, !.mcp4725 = {}, !.pca9685 = {}]
    /\ UNCHANGED piframe

\* let pi_num = { .. pigpio_start(null, null) .. res!(r, r)? }
PigpioStart ==
    /\ pi.pc = "pigpio_start"
    /\ \E r \in Answers(pi.started) :
        IF res(r) = "Ok"
        THEN pi' = [pi EXCEPT !.pc = "open_mcp4725", !.pi_num = {r},
                              !.started = @ + 1]
        ELSE pi' = [pi EXCEPT !.pc = "failed"]
    /\ UNCHANGED piframe

\* I2cHandle::new(pi_num, MCP4725_DEFAULT_ADDRESS)?; MCP4725::new(i2c)
OpenMcp4725 ==
    /\ pi.pc = "open_mcp4725"
    /\ \E r \in Answers(pi.opened) :
        IF res(r) = "Ok"
        THEN pi' = [pi EXCEPT !.pc = "open_pca9685", !.mcp4725 = {r},
                              !.opened = @ + 1]
        ELSE \* ? returns the error: pi_num is a plain integer, nothing is dropped
             pi' = [pi EXCEPT !.pc = "failed"]
    /\ UNCHANGED piframe

\* I2cHandle::new(pi_num, PCA9685_DEFAULT_ADDRESS)?
OpenPca9685 ==
    /\ pi.pc = "open_pca9685"
    /\ \E r \in Answers(pi.opened) :
        IF res(r) = "Ok"
        THEN pi' = [pi EXCEPT !.pc = "PCA9685::new", !.pca9685 = {r},
                              !.opened = @ + 1]
        ELSE \* ? returns the error: the local mcp4725 is dropped
             pi' = [pi EXCEPT !.pc = "dropping", !.after = "failed",
                              !.dropping = <<CHOOSE h \in pi.mcp4725 : TRUE>>]
    /\ UNCHANGED piframe

\* PCA9685::new(i2c)?, and res!(pi_num, RaspberryPi {..}) with pi_num >= 0
Pca9685New ==
    /\ pi.pc = "PCA9685::new"
    /\ \E ok \in BOOLEAN :
        IF ok
        THEN pi' = [pi EXCEPT !.pc = "built"]
        ELSE \* the i2c moved into PCA9685::new is dropped with it, then the
             \* local mcp4725
             pi' = [pi EXCEPT !.pc = "dropping", !.after = "failed",
                              !.dropping = <<CHOOSE h \in pi.pca9685 : TRUE,
                                             CHOOSE h \in pi.mcp4725 : TRUE>>]
    /\ UNCHANGED piframe

\* the RaspberryPi value goes out of scope: it has no Drop of its own, its
\* fields are dropped in the order of their declaration
DropPi ==
    /\ pi.pc = "built"
    /\ pi' = [pi EXCEPT !.pc = "dropping", !.after = "dropped",
                        !.dropping = <<CHOOSE h \in pi.mcp4725 : TRUE,
                                       CHOOSE h \in pi.pca9685 : TRUE>>]
    /\ UNCHANGED piframe

\* <I2cHandle as Drop>::drop: i2c_close, whose result is only logged
DropI2cHandle ==
    /\ pi.pc = "dropping"
    /\ pi.dropping # <<>>
    /\ \E code \in {0 - 1, 0} :
       LET h == Head(pi.dropping) IN
        pi' = [pi EXCEPT !.closes[h] = @ + 1,
                         !.log = IF res(code) = "Ok" THEN "debug" ELSE "error",
                         !.dropping = Tail(@),
                         !.pc = IF Tail(pi.dropping) = <<>> THEN pi.after ELSE @,
                         !.mcp4725 = @ \ {h},
                         !.pca9685 = @ \ {h}]
    /\ UNCHANGED piframe

NextPi ==
    \/ PiNew
    \/ PigpioStart
    \/ OpenMcp4725
    \/ OpenPca9685
    \/ Pca9685New
    \/ DropPi
    \/ DropI2cHandle

SpecPi == InitPi /\ [][NextPi]_vars

(* ------------------------ bin/pi-test.rs: circle ----------------------- *)
MaxSize == 3           \* the components of the circle size range over 0..MaxSize

\* the loop with its third for running forwards
set_args_forwards(phase, i, size) ==
    IF phase = 1 THEN <<i, 0>>
    ELSE IF phase = 2 THEN <<size.x - 1, i>>
    ELSE IF phase = 3 THEN <<i, size.y - 1>>
    ELSE <<0, size.y - 1 - i>>

\* the arguments (yo, xo) of set in the i-th round of each of the four fors
set_args(phase, i, size) ==
    IF phase = 1 THEN <<i, 0>>
    ELSE IF phase = 2 THEN <<size.x - 1, i>>
    ELSE IF phase = 3 THEN <<size.x - 1 - i, size.y - 1>>
    ELSE <<0, size.y - 1 - i>>

\* the range of each for: 0..size.x, 0..size.y, 0..size.x, 0..size.y
rounds(phase, size) == IF phase \in {1, 3} THEN size.x ELSE size.y

CircleArgs ==
    [location : {Location(0, 0), Location(1, 2)},
     size : { Location(y, x) : y \in 0..MaxSize, x \in 0..MaxSize }]

InitCircle ==
    /\ ProcessUnused
    /\ NoParse /\ NoCells /\ NoPi
    /\ \E a \in CircleArgs :
        circ = [pc |-> "start", location |-> a.location, size |-> a.size,
                phase |-> 1, i |-> 0,
                droplet |-> a.location,     \* snapshot.droplets[id].location
                shown |-> a.location,       \* the location of the output before
                lapped |-> FALSE]           \* the loop body has run to its end

circleframe == <<procvars, snapshot, planner_result, rects, distance,
                 input, parsed, cells, pi>>

\* mk_snapshot(location, dimensions); pi.output_pins(&grid, &snapshot)
CircleStart ==
    /\ circ.pc = "start"
    /\ circ' = [circ EXCEPT !.pc = "loop"]
    /\ UNCHANGED circleframe

\* one round of a for: set(yo, xo) moves the droplet and outputs the pins
CircleSet ==
    /\ circ.pc = "loop"
    /\ circ.i < rounds(circ.phase, circ.size)
    /\ LET a == set_args(circ.phase, circ.i, circ.size) IN
        circ' = [circ EXCEPT !.shown = circ.droplet,
                             !.droplet = Location(circ.location.y + a[1],
                                                  circ.location.x + a[2]),
                             !.i = @ + 1]
    /\ UNCHANGED circleframe

\* a for is exhausted: on to the next one, after the fourth back to the first
CircleNextFor ==
    /\ circ.pc = "loop"
    /\ circ.i >= rounds(circ.phase, circ.size)
    /\ circ' = [circ EXCEPT !.phase = (@ % 4) + 1, !.i = 0,
                            !.lapped = @ \/ circ.phase = 4]
    /\ UNCHANGED circleframe

NextCircle ==
    \/ CircleStart
    \/ CircleSet
    \/ CircleNextFor

SpecCircle == InitCircle /\ [][NextCircle]_vars

(* ------------------------------ claims --------------------------------- *)
IdsOf(t) == { out[t][i] : i \in DOMAIN out[t] }

\* the processes on which a close() has returned: by an explicit close, or by
\* the drop that follows the last reference going away
ClosedProcesses ==
    { p \in ProcessIds :
        /\ p < NEXT_PROCESS_ID
        /\ \/ ~Alive(p)
           \/ \E t \in Threads : /\ handle[t] = {p}
                                 /\ op[t] = "close"
                                 /\ Step(t) = "idle"
                                 /\ result[t] = "Ok" }

\* the call of thread t has passed plan (it returned, or it is unwinding)
CallOver(t) == Step(t) \in {"idle", "unwind"}

\* C1: no DropletId {id, process_id} is handed out twice: every Process::new
\* gets a process id of its own, the ids of one process are handed out in
\* increasing order without a repeat, and no two calls hold the same DropletId.
C1_DropletIdsUnique ==
    /\ \A p \in ProcessIds : process_ids[p] <= 1
    /\ \A d \in DropletIds : issued[d] <= 1
    /\ \A p \in ProcessIds :
         { d.id : d \in { e \in DropletIds : e.process_id = p /\ issued[e] > 0 } }
           = 0..(next_droplet_id[p] - 1)
    /\ \A t \in Threads : Cardinality(IdsOf(t)) = Len(out[t])
    /\ \A t \in Threads, u \in Threads : t # u => IdsOf(t) \cap IdsOf(u) = {}

\* two threads on two Process instances hold ids with the same id component
C1_Witness ==
    \E t \in Threads, u \in Threads :
        /\ out[t] # <<>> /\ out[u] # <<>>
        /\ out[t][1].id = out[u][1].id
        /\ out[t][1].process_id # out[u][1].process_id

\* C2: a flush call that ends has returned, and by then every command its
\* process submitted was planned, in the order of submission.
C2_FlushAfterPlanned ==
    \A t \in Threads :
        (op[t] = "flush" /\ CallOver(t)) =>
            /\ result[t] # "panic"
            /\ \A p \in handle[t] : planned[p] = submitted[p]

\* C3: at most one thread is inside the body of plan or of close, and it is
\* the one that holds the guard of the GridView.
C3_OnePlanner ==
    /\ Cardinality({ t \in Threads : Step(t) \in {"plan", "close"} }) <= 1
    /\ gridview_lock.holders = { t \in Threads : Step(t) \in {"plan", "close"} }

\* one thread plans while a thread of another Process waits for the guard
C3_Witness ==
    \E t \in Threads, u \in Threads :
        /\ Step(t) = "plan" /\ Step(u) = "lock"
        /\ handle[t] # {} /\ handle[u] # {} /\ handle[t] # handle[u]

\* C5: a planning attempt that does not succeed reports a planning error and
\* leaves the Snapshot as it was before the attempt.
C5_PlanAllOrNothing ==
    [][ \A t \in Threads :
          (Step(t) = "plan" /\ op[t] # "flush" /\ pc'[t] # pc[t]
             /\ result'[t] \notin {"pending", "Ok"})
          => (result'[t] = "PlanError" /\ snapshot' = snapshot) ]_vars

\* C6: a planning failure is an error value, never fatal: no thread is brought
\* down by it and the GridView stays usable for every process.
C6_PlanFailureNotFatal ==
    /\ ~gridview_lock.poisoned
    /\ \A t \in Threads : result[t] # "panic" /\ Step(t) # "dead"

\* C7: an operation that returns a validation error has not locked the
\* GridView in that call, so it submitted no command and touched no state.
C7_ValidationBeforeLock ==
    \A t \in Threads :
        result[t] = "Err" => (~acquired[t] /\ t \notin gridview_lock.holders)

\* a call that allocated an id returns its validation error while another
\* thread holds the GridView
C7_Witness ==
    \E t \in Threads, u \in Threads :
        /\ result[t] = "Err" /\ out[t] # <<>> /\ Step(t) = "idle"
        /\ Step(u) = "plan"

\* C8: when a flush call is over, exactly one result was delivered on its
\* channel and flush has returned that result.
C8_FlushOneResult ==
    \A t \in Threads :
        (op[t] = "flush" /\ CallOver(t)) =>
            /\ Len(chan[t].sent) = 1
            /\ result[t] = chan[t].sent[1]

C10_Symmetric ==
    distance # <<>> => distance[1] = distance[2]

\* the distance of an overlapping pair has been taken in both directions
C10_Witness ==
    /\ distance # <<>>
    /\ distance[1] < 0
    /\ rects[1] # rects[2]

PositiveDims(r) == r.dimensions.y >= 1 /\ r.dimensions.x >= 1

RowsOf(r) == { c.y : c \in locations(r) }

ColsOf(r) == { c.x : c \in locations(r) }

SharedCells(a, b) == locations(a) \cap locations(b) # {}

\* a cell of one is edge-adjacent or diagonally adjacent to a cell of the other
AdjacentCells(a, b) ==
    \E c1 \in locations(a), c2 \in locations(b) :
        Abs(c1.y - c2.y) <= 1 /\ Abs(c1.x - c2.x) <= 1

\* the rows (or columns) that lie strictly between two sets of rows, all of
\* one set being on one side
EmptyBetween(A, B) ==
    Cardinality({ v \in UNION { (a + 1)..(b - 1) : a \in A, b \in B } :
                    \A a \in A, b \in B : a < v /\ v < b })
    + Cardinality({ v \in UNION { (b + 1)..(a - 1) : a \in A, b \in B } :
                    \A a \in A, b \in B : b < v /\ v < a })

\* C11: for rectangles of positive dimensions the distance is negative exactly
\* when they share a cell, zero exactly when they share none but touch (by an
\* edge or a corner), and otherwise the number of empty rows or columns between
\* them on the axis where that number is largest; the pairs of the repository's
\* test give the distances the test expects.
C11_SignClassifies ==
    (distance # <<>> /\ PositiveDims(rects[1]) /\ PositiveDims(rects[2])) =>
        LET a == rects[1]
            b == rects[2]
            d == distance[1]
        IN  /\ (d < 0) = SharedCells(a, b)
            /\ (d = 0) = (~SharedCells(a, b) /\ AdjacentCells(a, b))
            /\ (d > 0) => d = IF EmptyBetween(RowsOf(a), RowsOf(b))
                                    >= EmptyBetween(ColsOf(a), ColsOf(b))
                                THEN EmptyBetween(RowsOf(a), RowsOf(b))
                                ELSE EmptyBetween(ColsOf(a), ColsOf(b))
            /\ \A c \in test_rectangle_distance :
                   (c.expected >= 0 /\ a = c.r1 /\ b = c.r2) => d = c.expected

\* two rectangles two rows apart and one column apart: the rows bind
C11_Witness ==
    /\ distance # <<>>
    /\ PositiveDims(rects[1]) /\ PositiveDims(rects[2])
    /\ distance[1] = 2
    /\ EmptyBetween(ColsOf(rects[1]), ColsOf(rects[2])) = 1

\* C12: for rectangles of positive dimensions that share a cell, the distance
\* is the negative of the number of rows, or of columns, the two have in
\* common, on the axis where they have fewer in common; also when one lies
\* inside the other.
C12_OverlapMagnitude ==
    (distance # <<>> /\ PositiveDims(rects[1]) /\ PositiveDims(rects[2])
       /\ SharedCells(rects[1], rects[2])) =>
        LET rows == Cardinality(RowsOf(rects[1]) \cap RowsOf(rects[2]))
            cols == Cardinality(ColsOf(rects[1]) \cap ColsOf(rects[2]))
        IN  distance[1] = 0 - (IF rows <= cols THEN rows ELSE cols)

\* the text form "(y, x)": parentheses around two signed integers separated
\* by a comma, with optional whitespace around the whole and around each number
WellFormed(s) ==
    LET t == trim(s) IN
    /\ Len(t) >= 2
    /\ t[1] = "(" /\ t[Len(t)] = ")"
    /\ LET pieces == split(SubSeq(t, 2, Len(t) - 1)) IN
        /\ Len(pieces) = 2
        /\ parse(trim(pieces[1])).kind = "Ok"
        /\ parse(trim(pieces[2])).kind = "Ok"

\* C13: from_str accepts exactly the texts of the form "(y, x)", yielding
\* Location{y, x}; every other text is rejected with a parse error that is
\* returned to the caller.
C13_ParseExact ==
    parsed # <<>> =>
        IF WellFormed(input)
        THEN LET pieces == split(SubSeq(trim(input), 2, Len(trim(input)) - 1)) IN
             parsed = [kind |-> "Ok",
                       location |-> Location(parse(trim(pieces[1])).value,
                                             parse(trim(pieces[2])).value)]
        ELSE parsed = [kind |-> "Err"]

\* C14: locations yields exactly the cells the rectangle covers, each once,
\* in row-major order (ascending y, ascending x within one y), and nothing
\* when a dimension is zero or negative.
C14_LocationsRowMajor ==
    cells.called =>
        LET r == rects[1]
            q == cells.yielded
        IN  /\ { q[i] : i \in DOMAIN q }
                 = { Location(r.location.y + dy, r.location.x + dx) :
                       dy \in 0..(r.dimensions.y - 1), dx \in 0..(r.dimensions.x - 1) }
            /\ \A i \in DOMAIN q, j \in DOMAIN q :
                 i < j => \/ q[i].y < q[j].y
                          \/ (q[i].y = q[j].y /\ q[i].x < q[j].x)
            /\ (r.dimensions.y <= 0 \/ r.dimensions.x <= 0) => q = <<>>

\* a rectangle of several rows and several columns has been walked
C14_Witness ==
    /\ cells.called
    /\ rects[1].dimensions.y >= 2 /\ rects[1].dimensions.x >= 2
    /\ Len(cells.yielded) = rects[1].dimensions.y * rects[1].dimensions.x

\* C15: no handle is closed twice or closed without having been opened, and
\* on every exit of RaspberryPi::new by an error, and once a RaspberryPi is
\* dropped, every pigpio connection and every I2C handle acquired so far has
\* been released exactly once.
C15_HandlesReleased ==
    /\ pi.stopped <= pi.started
    /\ \A h \in I2cHandles : pi.closes[h] <= (IF h < pi.opened THEN 1 ELSE 0)
    /\ pi.pc \in {"failed", "dropped"} =>
         /\ pi.stopped = pi.started
         /\ \A h \in I2cHandles : h < pi.opened => pi.closes[h] = 1

\* C16: once the submission of its Flush command is over, a thread in flush
\* waits (or has returned) without holding the GridView, and the GridView is
\* there for every other process to acquire and plan.
C16_FlushWaitsUnlocked ==
    \A t \in Threads :
        (op[t] = "flush" /\ acquired[t] /\ Step(t) # "plan") =>
            /\ t \notin gridview_lock.holders
            /\ result[t] # "panic"
            /\ ~gridview_lock.poisoned

\* C17: a mix call that is over has returned: the id of the Agitate after the
\* Combine and the Agitate were submitted in that order, or the error of the
\* command that failed, no Agitate being submitted after a failed Combine.
C17_MixCombineThenAgitate ==
    \A t \in Threads :
        op[t] = "mix" =>
            /\ CallOver(t) => result[t] \in {"Ok", "Err", "PlanError"}
            /\ result[t] = "Ok" => Len(out[t]) = 2
            /\ \A p \in handle[t] :
                 \A i \in DOMAIN submitted[p] :
                    submitted[p][i] = "Agitate" =>
                       \E j \in 1..(i - 1) : /\ submitted[p][j] = "Combine"
                                             /\ j \in DOMAIN planned[p]

\* C19: between the planning of its Combine and the planning of its Agitate a
\* mix call does not hold the GridView: it goes on to the Agitate, and in
\* between the GridView is there for the commands of other threads.
C19_MixNotAtomic ==
    \A t \in Threads :
        (op[t] = "mix" /\ acquired[t] /\ Len(out[t]) = 1 /\ Step(t) # "plan") =>
            /\ t \notin gridview_lock.holders
            /\ Step(t) = "new_droplet_id"
            /\ ~gridview_lock.poisoned

\* a close or drop that waits for the GridView waits for another thread, one
\* that is inside plan or close and so about to release it
CloseCanProceed(t) ==
    (Step(t) = "lock" /\ op[t] \in {"close", "drop"} /\ gridview_lock.holders # {})
        => \E u \in gridview_lock.holders : u # t /\ Step(u) \in {"plan", "close"}

\* C20: close never panics and never waits for a lock nobody will release; on
\* a poisoned lock it logs the error and returns, leaving the Snapshot as it
\* was; and it never leaves the GridView held.
C20_CloseReturns ==
    [][ \A t \in Threads :
          /\ CloseCanProceed(t)'
          /\ (Step(t) = "close" /\ pc'[t] # pc[t]) =>
                /\ result'[t] # "close_panic"
                /\ t \notin gridview_lock'.holders
                /\ gridview_lock.poisoned =>
                      (t \in logged' /\ snapshot' = snapshot) ]_vars

\* an explicit close has returned, having logged the poisoned lock that the
\* panic of another thread's plan left behind
C20_Witness ==
    \E t \in Threads, u \in Threads :
        /\ op[t] = "close" /\ Step(t) = "idle" /\ result[t] = "Ok"
        /\ t \in logged
        /\ result[u] = "panic"

\* C18: for a circle size with both components at least 1, two consecutive
\* outputs of the droplet are at most one step (Manhattan distance 1) apart,
\* also from the end of one lap to the start of the next, and at the end of
\* every lap the droplet is at its start location.
C18_CircleSingleSteps ==
    (circ.size.y >= 1 /\ circ.size.x >= 1) =>
        /\ distance_to(circ.shown, circ.droplet) <= 1
        /\ (circ.lapped /\ circ.phase = 1 /\ circ.i = 0) => circ.droplet = circ.location

\* in a later lap of a circle of several rows and columns the droplet has
\* just moved a step
C18_Witness ==
    /\ circ.lapped
    /\ circ.size.y >= 2 /\ circ.size.x >= 2
    /\ distance_to(circ.shown, circ.droplet) = 1

====
